---- MODULE Spec2Model ----
(***************************************************************************)
(* State-machine model of src/App.tsx: the FadeIn visibility animator,     *)
(* the useTheme theme controller and the Header (scroll flag and mobile    *)
(* menu), together with the platform services they talk to (intersection   *)
(* observers, localStorage, matchMedia, the root element's class list and  *)
(* the window's scroll position and scroll events).                        *)
(***************************************************************************)
EXTENDS Integers, Sequences, FiniteSets

\* ------------------------------------------------------------------ bounds
\* Number of FadeIn elements on the page that are modelled.
NumFadeIn == 1
\* Longest run of intersection entries an observer queues before its
\* callback is invoked.
MaxEntries == 2
\* Largest scroll offset the window takes; the offsets start just below the
\* threshold of Header.
MaxScrollY == 11

\* --------------------------------------------------------------- constants
\* `window.scrollY > 10` in Header.handleScroll (src/App.tsx, line 154).
ScrollThreshold == 10

Elements == 1..NumFadeIn
ScrollOffsets == (ScrollThreshold - 1)..MaxScrollY

\* localStorage.getItem returns null for a key that is absent.
NoItem == "<null>"
\* The key useTheme reads and writes, and another key of the same origin.
ThemeKey == "theme"
Keys == {"theme", "lang"}
\* What may be found under a key at load: nothing, the empty string, the two
\* theme names, or any other string some other writer left there.
StoredValues == {NoItem, "", "light", "dark", "blue"}
Themes == {"light", "dark"}
\* Answers of matchMedia('(prefers-color-scheme: dark)'): the query matches
\* only for "dark"; a platform with no such preference reports no match.
Preferences == {"dark", "light", "none"}

VARIABLES
    pc,          \* "rendered": first render done, effects not yet run;
                 \* "mounted": effects have run; "unmounted": cleanups have run;
                 \* "failed": an effect threw and the tree was removed
    isVisible,   \* FadeIn: useState(false), per element
    observing,   \* per element: its observer has the element as a target
    entries,     \* per element: entries queued by its observer (isIntersecting)
    theme,       \* useTheme: the `theme` the latest render captured
    themeState,  \* useTheme: the hook's state, setTheme's latest value
    darkClass,   \* document.documentElement.classList contains 'dark'
    storage,     \* localStorage: key -> value or NoItem
    prefers,     \* the platform's color-scheme preference
    isOpen,      \* Header: useState(false), the mobile overlay
    isScrolled,  \* Header: useState(false)
    listening,   \* Header: handleScroll is registered on window
    scrollY,     \* window.scrollY
    scrollPending, \* a scroll event is waiting to be dispatched
    hist,        \* history: the theme and stored value before each of the
                 \* last two toggleTheme calls of this mount, oldest first
    lastToggled, \* history: the theme the last toggleTheme call set, in this
                 \* or an earlier load of the page; NoItem before any call
    hasIO,       \* the platform defines IntersectionObserver
    storageMode  \* localStorage: "ok", "readonly" (setItem throws) or
                 \* "denied" (every access throws)

vars == <<pc, isVisible, observing, entries, theme, themeState, darkClass,
          storage, prefers, isOpen, isScrolled, listening, scrollY,
          scrollPending, hist, lastToggled, hasIO, storageMode>>

fadeVars == <<isVisible, observing, entries>>
themeVars == <<theme, themeState, darkClass, storage>>
headerVars == <<isOpen, isScrolled, listening>>
scrollVars == <<scrollY, scrollPending>>
envVars == <<prefers, hasIO, storageMode>>

\* How client storage answers: it works, it refuses writes (no quota, a
\* private window), or it refuses every access.
StorageModes == {"ok", "readonly", "denied"}

Snapshots == [theme : StoredValues \ {NoItem, ""}, stored : StoredValues,
              committed : BOOLEAN]

TypeOK ==
    /\ pc \in {"rendered", "mounted", "unmounted", "failed"}
    /\ isVisible \in [Elements -> BOOLEAN]
    /\ observing \in [Elements -> BOOLEAN]
    /\ \A e \in Elements : entries[e] \in Seq(BOOLEAN) /\ Len(entries[e]) <= MaxEntries
    /\ theme \in StoredValues \ {NoItem, ""}
    /\ themeState \in StoredValues \ {NoItem, ""}
    /\ darkClass \in BOOLEAN
    /\ storage \in [Keys -> StoredValues]
    /\ prefers \in Preferences
    /\ isOpen \in BOOLEAN
    /\ isScrolled \in BOOLEAN
    /\ listening \in BOOLEAN
    /\ scrollY \in ScrollOffsets
    /\ scrollPending \in BOOLEAN
    /\ hist \in Seq(Snapshots) /\ Len(hist) <= 2
    /\ lastToggled \in Themes \cup {NoItem}
    /\ hasIO \in BOOLEAN
    /\ storageMode \in StorageModes

\* ------------------------------------------------------------- first render
\* The state every component's useState initialiser gives, before any effect
\* has run.  The document, the storage and the platform are as found.
FreshComponents ==
    /\ pc = "rendered"
    /\ isVisible = [e \in Elements |-> FALSE]
    /\ observing = [e \in Elements |-> FALSE]
    /\ entries = [e \in Elements |-> <<>>]
    /\ theme = "light"
    /\ themeState = "light"
    /\ isOpen = FALSE
    /\ isScrolled = FALSE
    /\ listening = FALSE
    /\ hist = <<>>

FirstLoad ==
    /\ FreshComponents
    /\ darkClass \in BOOLEAN
    /\ storage \in [Keys -> StoredValues]
    /\ storage["lang"] = "blue"
    /\ prefers \in Preferences
    /\ scrollY \in ScrollOffsets
    /\ scrollPending = FALSE
    /\ lastToggled = NoItem

\* A platform with intersection observers and a working storage.
Init ==
    /\ FirstLoad
    /\ hasIO = TRUE
    /\ storageMode = "ok"

\* Any platform: intersection observers may be missing, the storage may
\* refuse writes or every access.
InitEnv ==
    /\ FirstLoad
    /\ hasIO \in BOOLEAN
    /\ storageMode \in StorageModes

\* ------------------------------------------------------------------ useTheme
\* `if (savedTheme)`: null and the empty string are falsy.
Truthy(v) == v # NoItem /\ v # ""

\* window.matchMedia('(prefers-color-scheme: dark)').matches
Matches(p) == p = "dark"

\* Mutant: the platform preference is not consulted.
LoadTheme_IgnorePreference(saved, p) ==
    IF Truthy(saved)
    THEN [theme |-> saved, dark |-> (saved = "dark")]
    ELSE [theme |-> "light", dark |-> FALSE]

\* The mount effect of useTheme: the theme it sets and the 'dark' marker it
\* leaves on the root element.
LoadTheme(saved, p) ==
    IF Truthy(saved)
    THEN [theme |-> saved, dark |-> (saved = "dark")]
    ELSE IF Matches(p)
         THEN [theme |-> "dark", dark |-> TRUE]
         ELSE [theme |-> "light", dark |-> FALSE]

\* Mutant: both branches of the conditional give 'dark'.
NewTheme_AlwaysDark(t) == "dark"

\* `theme === 'light' ? 'dark' : 'light'`
NewTheme(t) == IF t = "light" THEN "dark" ELSE "light"

\* Mutant: the value is written under another key.
SetItem_OtherKey(st, key, value) == [st EXCEPT !["lang"] = value]

\* localStorage.setItem(key, value)
SetItem(st, key, value) == [st EXCEPT ![key] = value]

\* Mutant: the mount effect also persists the theme it loaded.
MountEffects_Persist ==
    /\ pc = "rendered"
    /\ hasIO
    /\ storageMode # "denied"
    /\ pc' = "mounted"
    /\ observing' = [e \in Elements |-> TRUE]
    /\ listening' = TRUE
    /\ LET loaded == LoadTheme(storage[ThemeKey], prefers)
       IN /\ themeState' = loaded.theme
          /\ darkClass' = loaded.dark
          /\ storage' = SetItem(storage, ThemeKey, loaded.theme)
    /\ UNCHANGED <<isVisible, entries, theme, envVars, isOpen,
                   isScrolled, scrollY, scrollPending, hist, lastToggled>>

\* Mutant: the effect of Header calls handleScroll once when it registers it.
MountEffects_SyncScroll ==
    /\ pc = "rendered"
    /\ hasIO
    /\ storageMode # "denied"
    /\ pc' = "mounted"
    /\ observing' = [e \in Elements |-> TRUE]
    /\ listening' = TRUE
    /\ isScrolled' = (scrollY > ScrollThreshold)
    /\ LET loaded == LoadTheme(storage[ThemeKey], prefers)
       IN /\ themeState' = loaded.theme
          /\ darkClass' = loaded.dark
    /\ UNCHANGED <<isVisible, entries, theme, storage, envVars, isOpen,
                   scrollY, scrollPending, hist, lastToggled>>

\* The passive effects of the first commit, run in one flush: each FadeIn
\* creates its observer and observes its element, Header registers
\* handleScroll, useTheme loads the theme.  setTheme leaves a state update
\* that the next render commits.  No effect guards its platform calls, so
\* the flush completes only where `new IntersectionObserver` and
\* `localStorage.getItem` do not throw.
MountEffects ==
    /\ pc = "rendered"
    /\ hasIO
    /\ storageMode # "denied"
    /\ pc' = "mounted"
    /\ observing' = [e \in Elements |-> TRUE]
    /\ listening' = TRUE
    /\ LET loaded == LoadTheme(storage[ThemeKey], prefers)
       IN /\ themeState' = loaded.theme
          /\ darkClass' = loaded.dark
    /\ UNCHANGED <<isVisible, entries, theme, storage, envVars, isOpen,
                   isScrolled, scrollY, scrollPending, hist, lastToggled>>

\* The same flush on a platform where an effect throws: `new
\* IntersectionObserver` is a ReferenceError without the constructor, and
\* `localStorage.getItem` throws where storage is denied.  Nothing catches
\* the error and the page has no error boundary, so the whole tree is
\* removed: no flag was set, and the cleanups of the effects that did run
\* disconnect and unregister.  Where the storage can be read, the effect of
\* useTheme may have set the root marker before the tree went.
MountFails ==
    /\ pc = "rendered"
    /\ ~hasIO \/ storageMode = "denied"
    /\ pc' = "failed"
    /\ \/ darkClass' = darkClass
       \/ /\ storageMode # "denied"
          /\ darkClass' = LoadTheme(storage[ThemeKey], prefers).dark
    /\ UNCHANGED <<fadeVars, theme, themeState, storage, envVars, headerVars,
                   scrollVars, hist, lastToggled>>

\* The re-render that commits a pending setTheme: the new closure captures
\* the hook's state.
Render ==
    /\ pc = "mounted"
    /\ theme # themeState
    /\ theme' = themeState
    /\ UNCHANGED <<pc, fadeVars, themeState, darkClass, storage, envVars,
                   headerVars, scrollVars,
                   hist, lastToggled>>

\* Mutant: the theme persisted is the one being left.
ToggleTheme_StoreOld ==
    /\ pc = "mounted"
    /\ LET newTheme == NewTheme(theme)
       IN /\ themeState' = newTheme
          /\ theme' = newTheme
          /\ darkClass' = (newTheme = "dark")
          /\ storage' = SetItem(storage, ThemeKey, theme)
    /\ hist' = LET h == Append(hist, [theme |-> theme,
                                      stored |-> storage[ThemeKey],
                                      committed |-> (theme = themeState)])
               IN IF Len(h) > 2 THEN Tail(h) ELSE h
    /\ lastToggled' = NewTheme(theme)
    /\ UNCHANGED <<pc, fadeVars, envVars, headerVars, scrollVars>>

\* Mutant: the marker is flipped, `classList.toggle('dark')` with no force.
ToggleTheme_FlipMarker ==
    /\ pc = "mounted"
    /\ LET newTheme == NewTheme(theme)
       IN /\ themeState' = newTheme
          /\ theme' = newTheme
          /\ darkClass' = ~darkClass
          /\ storage' = IF storageMode = "ok"
                        THEN SetItem(storage, ThemeKey, newTheme)
                        ELSE storage
    /\ hist' = LET h == Append(hist, [theme |-> theme,
                                      stored |-> storage[ThemeKey],
                                      committed |-> (theme = themeState)])
               IN IF Len(h) > 2 THEN Tail(h) ELSE h
    /\ lastToggled' = NewTheme(theme)
    /\ UNCHANGED <<pc, fadeVars, envVars, headerVars, scrollVars>>

\* A click on either theme button.  toggleTheme reads the `theme` its render
\* captured; the click is a discrete event, so the state update it makes is
\* rendered before the handler returns to the platform.  setItem is the last
\* statement: where it throws, the state and the marker are already set and
\* the error leaves the handler, which unmounts nothing.
ToggleTheme ==
    /\ pc = "mounted"
    /\ LET newTheme == NewTheme(theme)
       IN /\ themeState' = newTheme
          /\ theme' = newTheme
          /\ darkClass' = (newTheme = "dark")
          /\ storage' = IF storageMode = "ok"
                        THEN SetItem(storage, ThemeKey, newTheme)
                        ELSE storage
    /\ hist' = LET h == Append(hist, [theme |-> theme,
                                      stored |-> storage[ThemeKey],
                                      committed |-> (theme = themeState)])
               IN IF Len(h) > 2 THEN Tail(h) ELSE h
    /\ lastToggled' = NewTheme(theme)
    /\ UNCHANGED <<pc, fadeVars, envVars, headerVars, scrollVars>>

\* toggleTheme called while the render of an earlier state update is still
\* to come (a second call in one batch): it reads the same captured `theme`
\* and its own update waits for that render too.
ToggleThemeUnrendered ==
    /\ pc = "mounted"
    /\ LET newTheme == NewTheme(theme)
       IN /\ themeState' = newTheme
          /\ darkClass' = (newTheme = "dark")
          /\ storage' = IF storageMode = "ok"
                        THEN SetItem(storage, ThemeKey, newTheme)
                        ELSE storage
    /\ hist' = LET h == Append(hist, [theme |-> theme,
                                      stored |-> storage[ThemeKey],
                                      committed |-> (theme = themeState)])
               IN IF Len(h) > 2 THEN Tail(h) ELSE h
    /\ lastToggled' = NewTheme(theme)
    /\ UNCHANGED <<pc, fadeVars, theme, envVars, headerVars, scrollVars>>

\* -------------------------------------------------------------------- FadeIn
\* The platform's intersection update for an observed element: the observer
\* queues an entry, intersecting or not, for its next callback.
QueueEntry(e, intersecting) ==
    /\ observing[e]
    /\ Len(entries[e]) < MaxEntries
    /\ entries' = [entries EXCEPT ![e] = Append(@, intersecting)]
    /\ UNCHANGED <<pc, isVisible, observing, themeVars, envVars, headerVars,
                   scrollVars,
                   hist, lastToggled>>

\* Mutant: the flag follows every report, `setIsVisible(entry.isIntersecting)`.
IntersectionCallback_Follow(e) ==
    /\ entries[e] # <<>>
    /\ isVisible' = IF pc = "mounted"
                    THEN [isVisible EXCEPT ![e] = Head(entries[e])]
                    ELSE isVisible
    /\ entries' = [entries EXCEPT ![e] = <<>>]
    /\ UNCHANGED <<pc, observing, themeVars, envVars, headerVars, scrollVars,
                   hist, lastToggled>>

\* Mutant: the callback does not call observer.unobserve.
IntersectionCallback_NoUnobserve(e) ==
    /\ entries[e] # <<>>
    /\ isVisible' = IF pc = "mounted" /\ Head(entries[e])
                    THEN [isVisible EXCEPT ![e] = TRUE]
                    ELSE isVisible
    /\ entries' = [entries EXCEPT ![e] = <<>>]
    /\ UNCHANGED <<pc, observing, themeVars, envVars, headerVars, scrollVars,
                   hist, lastToggled>>

\* Mutant: observer.unobserve is called outside the `if`.
IntersectionCallback_UnobserveAlways(e) ==
    /\ entries[e] # <<>>
    /\ isVisible' = IF pc = "mounted" /\ Head(entries[e])
                    THEN [isVisible EXCEPT ![e] = TRUE]
                    ELSE isVisible
    /\ observing' = [observing EXCEPT ![e] = FALSE]
    /\ entries' = [entries EXCEPT ![e] = <<>>]
    /\ UNCHANGED <<pc, themeVars, envVars, headerVars, scrollVars,
                   hist, lastToggled>>

\* The observer's callback, `([entry]) => {...}`, invoked with everything the
\* observer has queued: it looks at the first entry only.  setIsVisible on a
\* component that is no longer mounted changes nothing.
IntersectionCallback(e) ==
    /\ entries[e] # <<>>
    /\ LET entry == Head(entries[e])
       IN IF entry
          THEN /\ isVisible' = IF pc = "mounted"
                               THEN [isVisible EXCEPT ![e] = TRUE]
                               ELSE isVisible
               /\ observing' = [observing EXCEPT ![e] = FALSE]
          ELSE UNCHANGED <<isVisible, observing>>
    /\ entries' = [entries EXCEPT ![e] = <<>>]
    /\ UNCHANGED <<pc, themeVars, envVars, headerVars, scrollVars,
                   hist, lastToggled>>

\* -------------------------------------------------------------------- Header
\* The window scrolls (the user, a smooth scroll of one of the page's
\* buttons): the offset changes and a scroll event is due.
ScrollTo(y) ==
    /\ y # scrollY
    /\ scrollY' = y
    /\ scrollPending' = TRUE
    /\ UNCHANGED <<pc, fadeVars, themeVars, envVars, headerVars, hist, lastToggled>>

\* `handleScroll = () => setIsScrolled(window.scrollY > 10)`, run when the
\* pending scroll event is dispatched to the registered listener.
HandleScroll ==
    /\ scrollPending
    /\ listening
    /\ isScrolled' = (scrollY > ScrollThreshold)
    /\ scrollPending' = FALSE
    /\ UNCHANGED <<pc, fadeVars, themeVars, envVars, isOpen, listening,
                   scrollY, hist, lastToggled>>

\* A scroll event dispatched while no listener is registered (before the
\* mount effect, after the cleanup) reaches no handler.
ScrollUnheard ==
    /\ scrollPending
    /\ ~listening
    /\ scrollPending' = FALSE
    /\ UNCHANGED <<pc, fadeVars, themeVars, envVars, headerVars, scrollY,
                   hist, lastToggled>>

\* The menu button: `setIsOpen(!isOpen)`.  Clicks are discrete events, each
\* rendered before the next is handled, so the captured isOpen is the state.
ToggleMenu ==
    /\ pc = "mounted"
    /\ isOpen' = ~isOpen
    /\ UNCHANGED <<pc, fadeVars, themeVars, envVars, isScrolled, listening,
                   scrollVars,
                   hist, lastToggled>>

\* The move of the window to an anchor or to the contact section.
JumpTo(y) ==
    /\ scrollY' = y
    /\ scrollPending' = (scrollPending \/ y # scrollY)

\* Mutant: the link has no onClick handler, only the anchor's navigation.
ClickNavLink_NoClose(y) ==
    /\ pc = "mounted"
    /\ JumpTo(y)
    /\ UNCHANGED <<pc, fadeVars, themeVars, envVars, headerVars, hist, lastToggled>>

\* A link of the overlay: `setIsOpen(false)`, then the anchor's navigation.
ClickNavLink(y) ==
    /\ pc = "mounted"
    /\ isOpen' = FALSE
    /\ JumpTo(y)
    /\ UNCHANGED <<pc, fadeVars, themeVars, envVars, isScrolled, listening,
                   hist, lastToggled>>

\* The overlay's 'Start Project' button: `setIsOpen(false)`, then
\* `document.getElementById('contact')?.scrollIntoView()`.
ClickStartProject(y) ==
    /\ pc = "mounted"
    /\ isOpen' = FALSE
    /\ JumpTo(y)
    /\ UNCHANGED <<pc, fadeVars, themeVars, envVars, isScrolled, listening,
                   hist, lastToggled>>

\* ----------------------------------------------------------------- lifecycle
\* Mutant: the effect of FadeIn returns no cleanup.
Unmount_NoDisconnect ==
    /\ pc = "mounted"
    /\ pc' = "unmounted"
    /\ listening' = FALSE
    /\ UNCHANGED <<fadeVars, themeVars, envVars, isOpen, isScrolled,
                   scrollVars, hist, lastToggled>>

\* The effect cleanups: every observer disconnects, handleScroll is removed.
\* Whether a disconnected observer still holds its queued entries is left to
\* the platform.
Unmount ==
    /\ pc = "mounted"
    /\ pc' = "unmounted"
    /\ observing' = [e \in Elements |-> FALSE]
    /\ \/ entries' = entries
       \/ entries' = [e \in Elements |-> <<>>]
    /\ listening' = FALSE
    /\ UNCHANGED <<isVisible, themeVars, envVars, isOpen, isScrolled,
                   scrollVars,
                   hist, lastToggled>>

\* A fresh load of the page: new components over the same storage.
Reload ==
    /\ pc \in {"unmounted", "failed"}
    /\ pc' = "rendered"
    /\ isVisible' = [e \in Elements |-> FALSE]
    /\ observing' = [e \in Elements |-> FALSE]
    /\ entries' = [e \in Elements |-> <<>>]
    /\ theme' = "light"
    /\ themeState' = "light"
    /\ isOpen' = FALSE
    /\ isScrolled' = FALSE
    /\ listening' = FALSE
    /\ hist' = <<>>
    /\ darkClass' \in BOOLEAN
    /\ scrollY' \in ScrollOffsets
    /\ scrollPending' = FALSE
    /\ UNCHANGED <<storage, envVars, lastToggled>>

\* ==================================================================== claims
Committed == theme = themeState

\* C1: every FadeIn's isVisible is false at mount (at construction and after
\* every fresh load), and within the life of a component it never goes from
\* true back to false, so it changes from false to true at most once.
C1_VisibleOnce ==
    /\ \A e \in Elements : ~isVisible[e]
    /\ [][/\ pc' = "rendered" => \A e \in Elements : ~isVisible'[e]
          /\ pc' # "rendered" => \A e \in Elements : isVisible[e] => isVisible'[e]]_vars

C1_Witness == pc = "mounted" /\ \E e \in Elements : isVisible[e]

\* C2: a callback of a mounted FadeIn whose entry (the first of the batch it
\* is given) is intersecting sets isVisible and removes the element from the
\* observer's targets; from then on the element is not observed and no entry
\* is queued for it, so no later report is delivered.
C2_FirstIntersectionCancels ==
    /\ \A e \in Elements : isVisible[e] => ~observing[e] /\ entries[e] = <<>>
    /\ [][\A e \in Elements :
            /\ (pc = "mounted" /\ entries[e] # <<>> /\ Head(entries[e])
                   /\ IntersectionCallback(e))
               => isVisible'[e] /\ ~observing'[e] /\ entries'[e] = <<>>
            /\ isVisible'[e] => ~observing'[e] /\ entries'[e] = <<>>
            /\ isVisible[e] => ~ENABLED IntersectionCallback(e)]_vars

C2_Witness ==
    pc = "mounted" /\ \E e \in Elements :
        isVisible[e] /\ ~observing[e] /\ entries[e] = <<>>

\* C3 as claimed: two toggleTheme calls, the first from a committed state
\* with a theme of light or dark, return the theme to its original value
\* and the value stored under 'theme' to the one originally persisted.
C3_ToggleTwiceRestoresStored ==
    (pc = "mounted" /\ Len(hist) = 2 /\ hist[1].committed /\ hist[1].theme \in Themes)
    => theme = hist[1].theme /\ storage[ThemeKey] = hist[1].stored

\* C3 as amended: two toggleTheme calls, the first from a committed state
\* with a theme of light or dark, return the theme to its original value and
\* leave that original theme stored under 'theme': this is the originally
\* persisted value when the key held a theme name, and a newly written value
\* when the key was absent or empty.
C3_ToggleTwice ==
    (pc = "mounted" /\ Len(hist) = 2 /\ hist[1].committed /\ hist[1].theme \in Themes)
    => /\ theme = hist[1].theme
       /\ themeState = hist[1].theme
       /\ storage[ThemeKey] = hist[1].theme
       /\ hist[1].stored \in Themes => storage[ThemeKey] = hist[1].stored
       /\ darkClass = (hist[1].theme = "dark")

C3_Witness ==
    /\ pc = "mounted" /\ Len(hist) = 2 /\ hist[1].committed
    /\ hist[1].theme = "dark" /\ hist[1].stored = NoItem
    /\ theme = "dark" /\ storage[ThemeKey] = "dark"

C5_ThemeInDomain ==
    pc = "mounted" => theme \in Themes /\ themeState \in Themes

\* C6: a toggleTheme call from a committed state changes the theme to the
\* other of the two values, leaves the root 'dark' marker present exactly
\* when the new theme is 'dark', and leaves the new theme under 'theme'.
C6_ToggleEffect ==
    [][(ToggleTheme /\ Committed) =>
         /\ theme' \in Themes \ {theme}
         /\ themeState' = theme'
         /\ darkClass' = (theme' = "dark")
         /\ storage'[ThemeKey] = theme']_vars

C6_Witness ==
    /\ pc = "mounted" /\ Len(hist) = 1 /\ hist[1].committed
    /\ hist[1].theme = "dark" /\ hist[1].stored = NoItem /\ darkClass = FALSE
    /\ theme = "light" /\ storage[ThemeKey] = "light"

\* C7: no step changes client storage except under the key 'theme', and the
\* value it leaves there is 'light' or 'dark'.
C7_StorageWrites ==
    [][\A k \in Keys : storage'[k] # storage[k]
           => k = ThemeKey /\ storage'[k] \in Themes]_vars

C7_Witness ==
    /\ pc = "mounted" /\ Len(hist) = 1 /\ hist[1].theme = "blue"
    /\ storage[ThemeKey] = "light" /\ storage["lang"] = "blue"

\* C8: a step that changes the theme state, the rendered theme, the root
\* marker or the storage is the initial load, the render that shows its
\* result, toggleTheme, or the construction of fresh components; so scroll
\* events, menu actions and intersection reports change none of them.  The
\* initial load leaves the storage as it found it, only toggleTheme changes
\* it, and no step removes a stored key.
C8_ThemeFrame ==
    [][/\ themeState' # themeState => MountEffects \/ ToggleTheme \/ Reload
       /\ theme' # theme => Render \/ ToggleTheme \/ Reload
       /\ darkClass' # darkClass => MountEffects \/ ToggleTheme \/ Reload
       /\ storage' # storage => ToggleTheme
       /\ pc' = "mounted" /\ pc = "rendered" => storage' = storage
       /\ \A k \in Keys : storage[k] # NoItem => storage'[k] # NoItem]_vars

C8_Witness ==
    /\ pc = "mounted" /\ isScrolled /\ isOpen
    /\ \E e \in Elements : isVisible[e]
    /\ storage[ThemeKey] = NoItem /\ theme = "dark" /\ darkClass

\* C9: while Header is mounted and no scroll event is outstanding, isScrolled
\* is true exactly when the window's scroll offset exceeds the threshold.
C9_ScrolledMatchesOffset ==
    (pc = "mounted" /\ ~scrollPending) => (isScrolled = (scrollY > ScrollThreshold))

\* C10: the overlay is open or closed, closed at mount; a press of the menu
\* button switches it; a navigation link or the 'Start Project' button
\* leaves it closed whatever it was.
C10_MobileMenu ==
    /\ isOpen = FALSE
    /\ [][/\ isOpen' \in BOOLEAN
          /\ pc' = "rendered" => isOpen' = FALSE
          /\ ToggleMenu => isOpen' = ~isOpen
          /\ (\E y \in ScrollOffsets : ClickNavLink(y) \/ ClickStartProject(y))
             => isOpen' = FALSE
          /\ isOpen' # isOpen =>
               \/ ToggleMenu \/ Reload
               \/ \E y \in ScrollOffsets : ClickNavLink(y) \/ ClickStartProject(y)]_vars

C10_Witness == pc = "mounted" /\ isOpen

\* C11: on a platform without IntersectionObserver (its storage readable),
\* mounting does not fail and every FadeIn of the mounted page is visible.
C11_NoObserverStillVisible ==
    (~hasIO /\ storageMode # "denied")
    => /\ pc # "failed"
       /\ pc = "mounted" => \A e \in Elements : isVisible[e]

\* C12: where client storage is unavailable (it refuses writes, or every
\* access) on a platform with IntersectionObserver, the load does not fail,
\* and after a toggleTheme call the theme is the other of the two values and
\* the root marker is present exactly when it is 'dark'.
C12_StorageFailureNonFatal ==
    (hasIO /\ storageMode # "ok")
    => /\ pc # "failed"
       /\ (pc = "mounted" /\ hist # <<>>)
          => /\ themeState \in Themes \ {hist[Len(hist)].theme}
             /\ darkClass = (themeState = "dark")

\* C15: the mount effect puts every FadeIn's element under observation, the
\* cleanup at unmount ends every observation, nothing is observed while the
\* page is unmounted, and no step taken while it is unmounted (a report
\* still queued being delivered among them) changes an isVisible flag.
C15_ObserverLifecycle ==
    [][/\ MountEffects => \A e \in Elements : observing'[e]
       /\ Unmount => \A e \in Elements : ~observing'[e]
       /\ pc' = "unmounted" => \A e \in Elements : ~observing'[e]
       /\ (pc = "unmounted" /\ pc' = "unmounted") => isVisible' = isVisible]_vars

C15_Witness ==
    pc = "unmounted" /\ \E e \in Elements :
        ~isVisible[e] /\ ~observing[e] /\ entries[e] # <<>> /\ Head(entries[e])

\* C16: once the mount effect has run, under every interleaving of
\* toggleTheme calls and renders (calls that find an earlier update not yet
\* rendered among them), the root marker is present exactly when the theme
\* state is 'dark', the rendered theme agrees with it whenever no render is
\* pending, and after a toggleTheme call of this mount the value stored
\* under 'theme' is the theme state.
C16_ThemeMarkerStorageAgree ==
    pc = "mounted"
    => /\ darkClass = (themeState = "dark")
       /\ Committed => darkClass = (theme = "dark")
       /\ hist # <<>> => storage[ThemeKey] = themeState

C16_Witness ==
    /\ pc = "mounted" /\ Len(hist) = 2
    /\ hist[1].theme = "light" /\ hist[2].theme = "light"
    /\ theme = "light" /\ themeState = "dark"
    /\ darkClass /\ storage[ThemeKey] = "dark"

\* C17: a mount effect that runs after toggleTheme has been called (in an
\* earlier load of the page, storage working) loads the theme the last call
\* set, whatever the platform preference; the render that follows shows it.
C17_ReloadRoundTrip ==
    [][/\ (MountEffects /\ lastToggled # NoItem) => themeState' = lastToggled
       /\ (Render /\ hist = <<>> /\ lastToggled # NoItem) => theme' = lastToggled]_vars

C17_Witness ==
    /\ pc = "mounted" /\ hist = <<>> /\ lastToggled = "light"
    /\ prefers = "dark" /\ themeState = "light" /\ theme = "light"
    /\ ~darkClass

\* C18: isScrolled is false in fresh components and still false when the
\* mount effect has run, whatever the scroll offset; a step that changes it
\* handles a scroll event (or constructs fresh components), so theme toggles,
\* menu actions and the scrolling itself leave it as it is.
C18_ScrolledFrame ==
    /\ isScrolled = FALSE
    /\ [][/\ pc' = "rendered" => isScrolled' = FALSE
          /\ MountEffects => isScrolled' = FALSE
          /\ isScrolled' # isScrolled => HandleScroll \/ Reload]_vars

C18_Witness ==
    /\ pc = "mounted" /\ ~isScrolled /\ scrollY > ScrollThreshold
    /\ ~scrollPending /\ isOpen /\ hist # <<>>

\* C19: a callback whose entry (the first of its batch) is not intersecting
\* leaves isVisible and the observation as they are; so a mounted FadeIn
\* that is not yet visible is still observed, and an intersecting report
\* can still be queued for it or is already waiting.
C19_NotIntersectingKeepsObserving ==
    /\ \A e \in Elements : (pc = "mounted" /\ ~isVisible[e]) => observing[e]
    /\ [][\A e \in Elements :
            /\ (entries[e] # <<>> /\ ~Head(entries[e]) /\ IntersectionCallback(e))
               => isVisible'[e] = isVisible[e] /\ observing'[e] = observing[e]
            /\ (pc' = "mounted" /\ ~isVisible'[e]) => observing'[e]]_vars

C19_Witness ==
    pc = "mounted" /\ \E e \in Elements :
        ~isVisible[e] /\ observing[e] /\ entries[e] = <<FALSE, TRUE>>

Next ==
    \/ MountEffects
    \/ Render
    \/ ToggleTheme
    \/ \E e \in Elements, b \in BOOLEAN : QueueEntry(e, b)
    \/ \E e \in Elements : IntersectionCallback(e)
    \/ \E y \in ScrollOffsets : ScrollTo(y)
    \/ HandleScroll
    \/ ScrollUnheard
    \/ ToggleMenu
    \/ \E y \in ScrollOffsets : ClickNavLink(y)
    \/ \E y \in ScrollOffsets : ClickStartProject(y)
    \/ Unmount
    \/ Reload

Spec == Init /\ [][Next]_vars

\* The page where a toggleTheme call may precede the render of an earlier
\* state update.
NextBatched == Next \/ ToggleThemeUnrendered

SpecBatched == Init /\ [][NextBatched]_vars

\* The page on any platform.
NextEnv == Next \/ MountFails

SpecEnv == InitEnv /\ [][NextEnv]_vars
====
